---- MODULE Spec2Model ----
(***************************************************************************)
(* A model of the metric collection scripts: write_into_db.py (scrape two  *)
(* snapshots, parse, difference, persist), the CPU utilization roll-ups of *)
(* sheet_to_looker.py and monthly.py, and the script runner main.py.       *)
(*                                                                         *)
(* Text is modelled as a sequence of lines, a line as a sequence of        *)
(* tokens: a metric name or a label word is one token, every punctuation   *)
(* character and every character of a value field is a token of its own.  *)
(* Numbers are exact rationals (the code uses 64-bit floats).              *)
(***************************************************************************)
EXTENDS Integers, Sequences, FiniteSets, TLC

VARIABLES
    pc, text1, text2, elapsed, clock, db, diag, raised, ran, failed,  \* one cycle of write_into_db.main
    ptext, ppat, pres,                                   \* parse_metric on its own
    rdf1, rdf2, rout,                                    \* calculate_rate on its own
    udf, usheet, umonthly,                               \* the CPU utilization roll-ups
    psamples,                                            \* the samples a parsed text was written from
    mid, mtable, mout,                                   \* an identifier remapped
    rnext, rstarted, rcodes, rlog                        \* the script runner of main.py

cycleVars == <<pc, text1, text2, elapsed, clock, db, diag, raised, ran, failed>>
parseVars == <<ptext, ppat, pres, psamples>>
rateVars  == <<rdf1, rdf2, rout>>
utilVars  == <<udf, usheet, umonthly>>
remapVars == <<mid, mtable, mout>>
runVars   == <<rnext, rstarted, rcodes, rlog>>
vars == <<cycleVars, parseVars, rateVars, utilVars, remapVars, runVars>>

(***************************************************************************)
(* Numbers and cells                                                       *)
(***************************************************************************)
RECURSIVE Gcd(_, _)
Gcd(a, b) == IF b = 0 THEN a ELSE Gcd(b, a % b)

Abs(x) == IF x < 0 THEN -x ELSE x

RECURSIVE Pow10(_)
Pow10(k) == IF k = 0 THEN 1 ELSE 10 * Pow10(k - 1)

\* A cell of a DataFrame: a string (a sequence of tokens), a number n/d in
\* lowest terms with d > 0, or NaN (a missing value).
Str(s) == [t |-> "str", s |-> s, n |-> 0, d |-> 1]
NaN == [t |-> "nan", s |-> <<>>, n |-> 0, d |-> 1]
Num(n, d) ==
    LET g == Gcd(Abs(n), d)
    IN  [t |-> "num", s |-> <<>>, n |-> n \div g, d |-> d \div g]

IsNum(c) == c.t = "num"
NumSub(a, b) == Num(a.n * b.d - b.n * a.d, a.d * b.d)
NumAdd(a, b) == Num(a.n * b.d + b.n * a.d, a.d * b.d)
NumMulInt(a, k) == Num(a.n * k, a.d)
NumDivInt(a, k) == Num(a.n, a.d * k)
NumGe0(a) == IsNum(a) /\ a.n >= 0
NumLt(a, b) == a.n * b.d < b.n * a.d

(***************************************************************************)
(* The exposition text and parse_metric                                    *)
(***************************************************************************)
NonWord == {"{", "}", "=", "\"", ",", " ", "/", ".", "+", "-", ":", "\\"}
IsWord(tok) == tok \notin NonWord

Digits == {"0", "1", "2", "3", "4", "5", "6", "7", "8", "9"}
DigitVal(c) ==
    CASE c = "0" -> 0 [] c = "1" -> 1 [] c = "2" -> 2 [] c = "3" -> 3
      [] c = "4" -> 4 [] c = "5" -> 5 [] c = "6" -> 6 [] c = "7" -> 7
      [] c = "8" -> 8 [] c = "9" -> 9

\* The character class [0-9.e+-] of every pattern's value group.
ValueChars == Digits \cup {".", "e", "+", "-"}

\* The first index >= from of s holding tok, or 0.
RECURSIVE IndexFrom(_, _, _)
IndexFrom(s, tok, from) ==
    IF from > Len(s) THEN 0
    ELSE IF s[from] = tok THEN from
    ELSE IndexFrom(s, tok, from + 1)

\* The end of the longest run of value characters of s starting at from
\* (from - 1 when s[from] is none): the greedy [0-9.e+-]+.
RECURSIVE RunEnd(_, _)
RunEnd(s, from) ==
    IF from <= Len(s) /\ s[from] \in ValueChars THEN RunEnd(s, from + 1)
    ELSE from - 1

\* The patterns the collectors compile: the metric name, and whether the
\* label block is the optional group (?:\{([^}]*)\})? or required.
Pattern(name, optional) == [name |-> name, optional |-> optional]

NoMatch == [matched |-> FALSE, labels_str |-> <<>>, value |-> <<>>]

\* The value part of a match: a space at index sp, then the value run,
\* which ends at index end.
MatchRun(line, sp, end, labels_str) ==
    IF sp <= Len(line) /\ line[sp] = " " /\ end >= sp + 1
    THEN [matched |-> TRUE, labels_str |-> labels_str,
          value |-> SubSeq(line, sp + 1, end)]
    ELSE NoMatch

MatchValue(line, sp, labels_str) == MatchRun(line, sp, RunEnd(line, sp + 1), labels_str)

\* The label block that opens at line[2] and closes at index close.
MatchBlock(line, close) ==
    IF close = 0 THEN NoMatch
    ELSE MatchValue(line, close + 1, SubSeq(line, 3, close - 1))

\* regex.match(line): a match anchored at the start of the line only.
\* An absent label block (None) and an empty one both give labels_str <<>>,
\* which the caller treats alike.
RegexMatch(pattern, line) ==
    IF Len(line) < 2 \/ line[1] # pattern.name THEN NoMatch
    ELSE IF line[2] = "{" THEN MatchBlock(line, IndexFrom(line, "}", 3))
    ELSE IF pattern.optional THEN MatchValue(line, 2, <<>>)
    ELSE NoMatch

\* re.findall(r'(\w+)="(.*?)"', labels_str), scanning from index i: the
\* (key, value) pairs in order of appearance. q is the index of the closing
\* quote of a pair that would open at i (0: there is none).
RECURSIVE FindAll(_, _)
FindPair(s, i, q) ==
    IF IsWord(s[i]) /\ s[i + 1] = "=" /\ s[i + 2] = "\"" /\ q # 0
    THEN <<[key |-> s[i], val |-> SubSeq(s, i + 3, q - 1)]>> \o FindAll(s, q + 1)
    ELSE FindAll(s, i + 1)

FindAll(s, i) ==
    IF i + 3 > Len(s) THEN <<>> ELSE FindPair(s, i, IndexFrom(s, "\"", i + 3))

\* dict(pairs): a later pair of the same key replaces an earlier one.
Put(dict, pair) ==
    [k \in (DOMAIN dict) \cup {pair.key} |->
        IF k = pair.key THEN Str(pair.val) ELSE dict[k]]

RECURSIVE DictOf(_)
DictOf(pairs) ==
    IF pairs = <<>> THEN <<>>
    ELSE Put(DictOf(SubSeq(pairs, 1, Len(pairs) - 1)), pairs[Len(pairs)])

AllDigits(s) == \A i \in 1..Len(s) : s[i] \in Digits

RECURSIVE NatOf(_)
NatOf(s) == IF s = <<>> THEN 0
            ELSE NatOf(SubSeq(s, 1, Len(s) - 1)) * 10 + DigitVal(s[Len(s)])

Unsigned(s) == IF s # <<>> /\ s[1] \in {"+", "-"} THEN Tail(s) ELSE s
SignOf(s) == IF s # <<>> /\ s[1] = "-" THEN -1 ELSE 1

\* s split at index at (0: tok was not found, all of s is the head).
CutAt(s, at) ==
    IF at = 0 THEN [head |-> s, tail |-> <<>>, found |-> FALSE]
    ELSE [head |-> SubSeq(s, 1, at - 1), tail |-> SubSeq(s, at + 1, Len(s)), found |-> TRUE]

\* s split at its first tok.
SplitAt(s, tok) == CutAt(s, IndexFrom(s, tok, 1))

Scaled(m, k) == IF k >= 0 THEN Num(m * Pow10(k), 1) ELSE Num(m, Pow10(-k))

\* The float of sign, mantissa mant = head.tail and exponent expo (a
\* signed digit string, or absent), or the ValueError.
FloatParts(sign, mant, expo) ==
    IF /\ AllDigits(mant.head) /\ AllDigits(mant.tail)
       /\ Len(mant.head) + Len(mant.tail) >= 1
       /\ ~expo.found \/ (Unsigned(expo.tail) # <<>> /\ AllDigits(Unsigned(expo.tail)))
    THEN [ok |-> TRUE,
          val |-> Scaled(sign * NatOf(mant.head \o mant.tail),
                         SignOf(expo.tail) * NatOf(Unsigned(expo.tail)) - Len(mant.tail))]
    ELSE [ok |-> FALSE, val |-> NaN]

FloatExp(sign, expo) == FloatParts(sign, SplitAt(expo.head, "."), expo)

\* float(value) on a string of value characters:
\* [sign] (digits [. [digits]] | . digits) [e [sign] digits], else ValueError.
FloatOf(s) == FloatExp(SignOf(s), SplitAt(Unsigned(s), "e"))

\* A DataFrame: its columns and its rows in order, each row a function from
\* the columns to cells.
Frame(cols, rows) == [cols |-> cols, rows |-> rows]
EmptyFrame == Frame({}, <<>>)
IsEmpty(df) == df.rows = <<>> \/ df.cols = {}

\* A row widened to cols: a column it lacks is NaN.
Widened(row, cols) == [c \in cols |-> IF c \in DOMAIN row THEN row[c] ELSE NaN]

FrameOver(records, cols) ==
    Frame(cols, [i \in 1..Len(records) |-> Widened(records[i], cols)])

\* pd.DataFrame(records): the columns are the union of the records' keys, a
\* key a record lacks is NaN in its row.
DataFrameOf(records) ==
    FrameOver(records, UNION {DOMAIN records[i] : i \in 1..Len(records)})

\* labels[value_name] = val
WithValue(labels, value_name, val) ==
    [k \in (DOMAIN labels) \cup {value_name} |->
        IF k = value_name THEN val ELSE labels[k]]

\* The body of the loop of parse_metric for a line with match m, whose
\* value float() turned into f: the record, or the ValueError.
Converted(m, f, value_name) ==
    IF f.ok
    THEN [kind |-> "record",
          record |-> WithValue(DictOf(FindAll(m.labels_str, 1)), value_name, f.val)]
    ELSE [kind |-> "ValueError", record |-> <<>>]

Matched(m, value_name) ==
    IF m.matched THEN Converted(m, FloatOf(m.value), value_name)
    ELSE [kind |-> "skip", record |-> <<>>]

LineOutcome(pattern, line, value_name) == Matched(RegexMatch(pattern, line), value_name)

IsRecord(outcome) == outcome.kind = "record"
RecordsOf(kept) == [i \in 1..Len(kept) |-> kept[i].record]

\* The loop over the lines: an exception at the first line whose value is
\* no float ends the function, else every matching line gave its record.
Parsed(outcomes) ==
    IF \E i \in 1..Len(outcomes) : outcomes[i].kind = "ValueError"
    THEN [raised |-> "ValueError", df |-> EmptyFrame]
    ELSE [raised |-> "none", df |-> DataFrameOf(RecordsOf(SelectSeq(outcomes, IsRecord)))]

parse_metric(pattern, text, value_name) ==
    Parsed([i \in 1..Len(text) |-> LineOutcome(pattern, text[i], value_name)])

(***************************************************************************)
(* DataFrame operations used by the collectors                             *)
(***************************************************************************)
Range(seq) == {seq[i] : i \in 1..Len(seq)}

\* The concatenation of a sequence of sequences.
RECURSIVE Flatten(_)
Flatten(ss) == IF ss = <<>> THEN <<>> ELSE Head(ss) \o Flatten(Tail(ss))

\* The name a column c gets in a merge: suffixed when both frames have it.
MergedName(c, shared, suffix) == IF c \in shared THEN c \o suffix ELSE c

\* One row of the join: the keys, then the left row's and the right row's
\* other columns under their merged names.
Joined(lrow, rrow, keys, shared, lrest, rrest, sl, sr) ==
    [c \in keys \cup {MergedName(x, shared, sl) : x \in lrest}
                \cup {MergedName(y, shared, sr) : y \in rrest} |->
        IF c \in keys THEN lrow[c]
        ELSE IF \E x \in lrest : MergedName(x, shared, sl) = c
        THEN lrow[CHOOSE x \in lrest : MergedName(x, shared, sl) = c]
        ELSE rrow[CHOOSE y \in rrest : MergedName(y, shared, sr) = c]]

\* A join that pairs every left row with every right row.
SameKeys_Cross(lrow, rrow, keys) == TRUE

SameKeys(lrow, rrow, keys) == \A k \in keys : lrow[k] = rrow[k]

\* The right rows a left row joins with, in order, joined.
MatchesOf(lrow, rrows, keys, shared, lrest, rrest, sl, sr) ==
    LET hit == SelectSeq(rrows, LAMBDA rrow : SameKeys(lrow, rrow, keys))
    IN  [j \in 1..Len(hit) |-> Joined(lrow, hit[j], keys, shared, lrest, rrest, sl, sr)]

MergeOn(left, right, keys, shared, sl, sr) ==
    IF ~(keys \subseteq left.cols /\ keys \subseteq right.cols)
    THEN [raised |-> "KeyError", df |-> EmptyFrame]
    ELSE [raised |-> "none",
          df |-> Frame(keys \cup {MergedName(x, shared, sl) : x \in left.cols \ keys}
                            \cup {MergedName(y, shared, sr) : y \in right.cols \ keys},
                       Flatten([i \in 1..Len(left.rows) |->
                            MatchesOf(left.rows[i], right.rows, keys, shared,
                                      left.cols \ keys, right.cols \ keys, sl, sr)]))]

\* pd.merge(left, right, on=on, suffixes=(sl, sr)): the inner join on the
\* key columns, in the order of the left rows; a column other than a key
\* that both frames have gets the suffixes. A key column missing from
\* either frame is a KeyError. Equal keys match, NaN keys included.
Merge(left, right, on, sl, sr) ==
    MergeOn(left, right, Range(on), (left.cols \cap right.cols) \ Range(on), sl, sr)

\* The divisor of calculate_rate.
RATE_DIVISOR == 60

\* (new - old) / 60; NaN when either side is no number.
RateOf(old, new) ==
    IF IsNum(new) /\ IsNum(old)
    THEN NumDivInt(NumSub(new, old), RATE_DIVISOR)
    ELSE NaN

\* A filter that keeps every row that has a rate, whatever its sign.
KeepRate_AnySign(rate) == IsNum(rate)

\* The rows kept by df[df[value_col + "_rate"] >= 0]; NaN >= 0 is False.
KeepRate(rate) == NumGe0(rate)

\* df[value_col + "_rate"] = (df[value_col + "_new"] - df[value_col + "_old"]) / 60
WithRate(row, value_col) ==
    [c \in (DOMAIN row) \cup {value_col \o "_rate"} |->
        IF c = value_col \o "_rate"
        THEN RateOf(row[value_col \o "_old"], row[value_col \o "_new"])
        ELSE row[c]]

\* The merged frame m with its rate column, the rows of negative rate dropped.
Rated(m, value_col) ==
    IF m.raised # "none" THEN m
    ELSE IF ~({value_col \o "_new", value_col \o "_old"} \subseteq m.df.cols)
    THEN [raised |-> "KeyError", df |-> EmptyFrame]
    ELSE [raised |-> "none",
          df |-> Frame(m.df.cols \cup {value_col \o "_rate"},
                       SelectSeq([i \in 1..Len(m.df.rows) |-> WithRate(m.df.rows[i], value_col)],
                                 LAMBDA row : KeepRate(row[value_col \o "_rate"])))]

calculate_rate(df1, df2, label_cols, value_col) ==
    Rated(Merge(df1, df2, label_cols, "_old", "_new"), value_col)

\* The new name of column c under a rename.
Renamed(c, map) == IF c \in DOMAIN map THEN map[c] ELSE c

\* df.rename(columns=map): map is a function from old names to new ones.
Rename(df, map) ==
    Frame({Renamed(c, map) : c \in df.cols},
          [i \in 1..Len(df.rows) |->
              [c \in {Renamed(x, map) : x \in df.cols} |->
                  df.rows[i][CHOOSE x \in df.cols : Renamed(x, map) = c]]])

\* df[[...]]: the listed columns, a KeyError when one is missing.
Select(df, want) ==
    IF ~(want \subseteq df.cols) THEN [raised |-> "KeyError", df |-> EmptyFrame]
    ELSE [raised |-> "none",
          df |-> Frame(want, [i \in 1..Len(df.rows) |->
                                [c \in want |-> df.rows[i][c]]])]

\* df[col] = cells: the column set (or added), cells[i] in row i. On a
\* frame with no rows this adds the column alone.
SetColumn(df, col, cells) ==
    Frame(df.cols \cup {col},
          [i \in 1..Len(df.rows) |->
              [c \in df.cols \cup {col} |-> IF c = col THEN cells[i] ELSE df.rows[i][c]]])

\* A scalar broadcast over the rows of df.
Scalar(df, cell) == [i \in 1..Len(df.rows) |-> cell]

\* df[col]
Column(df, col) == [i \in 1..Len(df.rows) |-> df.rows[i][col]]

(***************************************************************************)
(* insert and the five collectors                                          *)
(*                                                                         *)
(* A collector runs on a record st: the tables (db), the lines printed     *)
(* (diag), the exception in flight (raised) and the number of to_sql calls *)
(* made so far in this collector (calls). Once raised is set, nothing      *)
(* later in the collector runs.                                            *)
(***************************************************************************)
Tables == {"bandwidth", "ram_stats", "disk_free_space", "cpu_cstate_rates",
           "disk_iops", "disk_throughput"}

Raise(st, exc) == [st EXCEPT !.raised = exc]
Say(st, msg, what) == [st EXCEPT !.diag = @ \cup {[msg |-> msg, what |-> what]}]

DEFAULT_IP == <<"127", ".", "0", ".", "0", ".", "1">>

\* insert(df, table): a frame with rows gets timestamp and ip columns and
\* is appended to the table; to_sql raises when the sink fails, which is
\* the failAt-th call of this collector. An empty frame is only reported.
\* No caller passes an "instance" column, so ip is always the default.
Stamped(df, now) ==
    SetColumn(SetColumn(df, "timestamp", Scalar(df, Num(now, 1))),
              "ip", Scalar(df, Str(DEFAULT_IP)))

insert(st, df, table, now, failAt) ==
    IF st.raised # "none" THEN st
    ELSE IF IsEmpty(df) THEN Say(st, "No data to insert", table)
    ELSE IF st.calls + 1 = failAt
    THEN Raise([st EXCEPT !.calls = @ + 1], "SinkError")
    ELSE Say([st EXCEPT !.calls = @ + 1,
                        !.db[table] = @ \o Stamped(df, now).rows],
             "Inserted", table)

\* The first exception among results, "none" when there is none.
FirstRaised(results) ==
    IF \E i \in 1..Len(results) : results[i].raised # "none"
    THEN results[CHOOSE i \in 1..Len(results) :
                    /\ results[i].raised # "none"
                    /\ \A j \in 1..(i - 1) : results[j].raised = "none"].raised
    ELSE "none"

DEFAULT_INSTANCE == <<"localhost", ":", "9100">>

\* if "instance" not in df.columns: df["instance"] = "localhost:9100"
WithInstance(df) ==
    IF "instance" \in df.cols THEN df
    ELSE SetColumn(df, "instance", Scalar(df, Str(DEFAULT_INSTANCE)))

\* series.map(table).fillna(series) on one cell: a key of the table is
\* replaced, anything else stays.
Remap(table, cell) ==
    IF cell.t = "str" /\ cell.s \in DOMAIN table THEN Str(table[cell.s]) ELSE cell

\* df[col].map(table).fillna(df[col])
Remapped(df, col, table) == [i \in 1..Len(df.rows) |-> Remap(table, df.rows[i][col])]

\* A mountpoint table one of whose values is itself a key.
MOUNT_MAP_Chained ==
    (<<"/">> :> <<"/", "run">>) @@ (<<"/", "run">> :> <<"D">>)

MOUNT_MAP ==
    (<<"/">> :> <<"C">>) @@ (<<"/", "run">> :> <<"D">>)
    @@ (<<"/", "run", "/", "user", "/", "1000">> :> <<"E">>)
    @@ (<<"/", "run", "/", "lock">> :> <<"F">>)
    @@ (<<"/", "run", "/", "snapd", "/", "ns">> :> <<"G">>)

DEVICE_MAP == (<<"sda">> :> <<"C">>) @@ (<<"sdb">> :> <<"D">>) @@ (<<"sdc">> :> <<"E">>)

CpuPattern == Pattern("node_cpu_seconds_total", FALSE)
MemPattern == Pattern("node_memory_MemAvailable_bytes", TRUE)
FsPattern == Pattern("node_filesystem_free_bytes", FALSE)
RxPattern == Pattern("node_network_receive_bytes_total", FALSE)
TxPattern == Pattern("node_network_transmit_bytes_total", FALSE)
ReadsPattern == Pattern("node_disk_reads_completed_total", FALSE)
WritesPattern == Pattern("node_disk_writes_completed_total", FALSE)
RBytesPattern == Pattern("node_disk_read_bytes_total", FALSE)
WBytesPattern == Pattern("node_disk_written_bytes_total", FALSE)

\* insert(df[[...]], table), where sel is the selection df[[...]].
InsertSelected(st, sel, table, now, failAt) ==
    IF sel.raised # "none" THEN Raise(st, sel.raised)
    ELSE insert(st, sel.df, table, now, failAt)

CPU_RENAME == ("cpu" :> "core") @@ ("mode" :> "state") @@ ("value_rate" :> "rate_per_sec")

\* store_cpu once calculate_rate has returned r.
CpuRated(st, r, now, failAt) ==
    IF r.raised # "none" THEN Raise(st, r.raised)
    ELSE InsertSelected(st, Select(Rename(r.df, CPU_RENAME), {"core", "state", "rate_per_sec"}),
                        "cpu_cstate_rates", now, failAt)

\* store_cpu once both texts are parsed.
CpuParsed(st, p1, p2, now, failAt) ==
    IF p1.raised # "none" THEN Raise(st, p1.raised)
    ELSE IF p2.raised # "none" THEN Raise(st, p2.raised)
    ELSE IF IsEmpty(p1.df) \/ IsEmpty(p2.df) THEN Say(st, "No CPU data available", "cpu")
    ELSE CpuRated(st, calculate_rate(WithInstance(p1.df), WithInstance(p2.df),
                                     <<"instance", "cpu", "mode">>, "value"),
                  now, failAt)

store_cpu(st, t1, t2, now, failAt) ==
    CpuParsed(st, parse_metric(CpuPattern, t1, "value"),
              parse_metric(CpuPattern, t2, "value"), now, failAt)

\* store_memory once the text is parsed.
MemoryParsed(st, p, now, failAt) ==
    IF p.raised # "none" THEN Raise(st, p.raised)
    ELSE IF IsEmpty(p.df) THEN st
    ELSE InsertSelected(st, Select(SetColumn(p.df, "metric", Scalar(p.df, Str(<<"MemAvailable">>))),
                                   {"metric", "bytes"}),
                        "ram_stats", now, failAt)

store_memory(st, t2, now, failAt) ==
    MemoryParsed(st, parse_metric(MemPattern, t2, "bytes"), now, failAt)

\* store_disk_free from the frame after the rename: df["volume"] is a
\* KeyError on a frame without the column.
DiskFreeRenamed(st, df, now, failAt) ==
    IF "volume" \notin df.cols THEN Raise(st, "KeyError")
    ELSE InsertSelected(st, Select(SetColumn(df, "volume", Remapped(df, "volume", MOUNT_MAP)),
                                   {"volume", "bytes"}),
                        "disk_free_space", now, failAt)

\* store_disk_free once the text is parsed.
DiskFreeParsed(st, p, now, failAt) ==
    IF p.raised # "none" THEN Raise(st, p.raised)
    ELSE DiskFreeRenamed(st, IF "mountpoint" \in p.df.cols
                             THEN Rename(p.df, "mountpoint" :> "volume") ELSE p.df,
                         now, failAt)

store_disk_free(st, t2, now, failAt) ==
    DiskFreeParsed(st, parse_metric(FsPattern, t2, "bytes"), now, failAt)

\* df_rate["value_mbps"] = df_rate["value"] * 8 / 1024 / 1024
Mbps(df) ==
    SetColumn(df, "value_mbps",
              [i \in 1..Len(df.rows) |->
                  NumDivInt(NumDivInt(NumMulInt(df.rows[i]["value"], 8), 1024), 1024)])

\* df_rate["value"] = df_rate["value_rate"]
Valued(df) == SetColumn(df, "value", Column(df, "value_rate"))

\* df_rate["metric_name"] = ...; df_rate["mode"] = mode
Named(df, mode) ==
    SetColumn(SetColumn(df, "metric_name",
                        Scalar(df, Str(<<"node_network_", mode, "_bytes_total">>))),
              "mode", Scalar(df, Str(<<mode>>)))

\* The columns store_bandwidth adds to the rated frame.
BandwidthColumns(df, mode) == Mbps(Valued(Named(df, mode)))

\* One turn of the loop of store_bandwidth once calculate_rate has returned r.
BandwidthRated(st, r, mode, now, failAt) ==
    IF r.raised # "none" THEN Raise(st, r.raised)
    ELSE InsertSelected(st, Select(BandwidthColumns(r.df, mode),
                                   {"metric_name", "mode", "value", "value_mbps"}),
                        "bandwidth", now, failAt)

\* One turn of the loop of store_bandwidth.
BandwidthTurn(st, df_old, df_new, mode, now, failAt) ==
    IF st.raised # "none" THEN st
    ELSE BandwidthRated(st, calculate_rate(WithInstance(df_old), WithInstance(df_new),
                                           <<"instance", "device">>, "value"),
                        mode, now, failAt)

\* store_bandwidth once the four frames are parsed.
BandwidthParsed(st, rx1, rx2, tx1, tx2, now, failAt) ==
    IF FirstRaised(<<rx1, rx2, tx1, tx2>>) # "none"
    THEN Raise(st, FirstRaised(<<rx1, rx2, tx1, tx2>>))
    ELSE BandwidthTurn(BandwidthTurn(st, rx1.df, rx2.df, "receive", now, failAt),
                       tx1.df, tx2.df, "transmit", now, failAt)

store_bandwidth(st, t1, t2, now, failAt) ==
    BandwidthParsed(st, parse_metric(RxPattern, t1, "value"), parse_metric(RxPattern, t2, "value"),
                    parse_metric(TxPattern, t1, "value"), parse_metric(TxPattern, t2, "value"),
                    now, failAt)

\* df["volume"] = df["volume"].map({...}).fillna(df["volume"])
DiskVolumes(df) == SetColumn(df, "volume", Remapped(df, "volume", DEVICE_MAP))

\* One half of store_disk_iops_throughput once the two rated frames r and w
\* are merged into m: renamed, remapped and inserted.
DiskMerged(st, r, w, m, names, now, failAt) ==
    IF FirstRaised(<<r, w, m>>) # "none" THEN Raise(st, FirstRaised(<<r, w, m>>))
    ELSE InsertSelected(st, Select(DiskVolumes(Rename(m.df, names.rename)), names.columns),
                        names.table, now, failAt)

DiskRated(st, r, w, names, now, failAt) ==
    DiskMerged(st, r, w, Merge(r.df, w.df, <<"device">>, "_x", "_y"), names, now, failAt)

\* One half of store_disk_iops_throughput: the read and the write family
\* rated, joined on the device, and inserted; skipped when a frame is empty.
DiskHalf(st, a1, a2, b1, b2, names, now, failAt) ==
    IF st.raised # "none" THEN st
    ELSE IF IsEmpty(a1) \/ IsEmpty(a2) \/ IsEmpty(b1) \/ IsEmpty(b2) THEN st
    ELSE DiskRated(st, calculate_rate(a1, a2, <<"device">>, names.a),
                   calculate_rate(b1, b2, <<"device">>, names.b), names, now, failAt)

IOPS ==
    [a |-> "reads", b |-> "writes", table |-> "disk_iops",
     rename |-> ("reads_rate" :> "read_iops") @@ ("writes_rate" :> "write_iops")
                @@ ("device" :> "volume"),
     columns |-> {"volume", "read_iops", "write_iops"}]

THROUGHPUT ==
    [a |-> "rbytes", b |-> "wbytes", table |-> "disk_throughput",
     rename |-> ("rbytes_rate" :> "read_bytes_per_sec")
                @@ ("wbytes_rate" :> "write_bytes_per_sec") @@ ("device" :> "volume"),
     columns |-> {"volume", "read_bytes_per_sec", "write_bytes_per_sec"}]

\* store_disk_iops_throughput once the eight frames are parsed (p: in the
\* order of the code).
DiskParsed(st, p, now, failAt) ==
    IF FirstRaised(p) # "none" THEN Raise(st, FirstRaised(p))
    ELSE DiskHalf(DiskHalf(st, p[1].df, p[2].df, p[3].df, p[4].df, IOPS, now, failAt),
                  p[5].df, p[6].df, p[7].df, p[8].df, THROUGHPUT, now, failAt)

DISK_PARSES ==
    << [pattern |-> ReadsPattern, snapshot |-> 1, value_name |-> "reads"],
       [pattern |-> ReadsPattern, snapshot |-> 2, value_name |-> "reads"],
       [pattern |-> WritesPattern, snapshot |-> 1, value_name |-> "writes"],
       [pattern |-> WritesPattern, snapshot |-> 2, value_name |-> "writes"],
       [pattern |-> RBytesPattern, snapshot |-> 1, value_name |-> "rbytes"],
       [pattern |-> RBytesPattern, snapshot |-> 2, value_name |-> "rbytes"],
       [pattern |-> WBytesPattern, snapshot |-> 1, value_name |-> "wbytes"],
       [pattern |-> WBytesPattern, snapshot |-> 2, value_name |-> "wbytes"] >>

store_disk_iops_throughput(st, t1, t2, now, failAt) ==
    DiskParsed(st, [i \in 1..Len(DISK_PARSES) |->
                      parse_metric(DISK_PARSES[i].pattern,
                                   IF DISK_PARSES[i].snapshot = 1 THEN t1 ELSE t2,
                                   DISK_PARSES[i].value_name)],
               now, failAt)

(***************************************************************************)
(* The snapshots the scrape target may serve                               *)
(***************************************************************************)
MaxLevel == 2       \* counter levels 0..MaxLevel a snapshot may be taken at
MaxEdits == 1       \* families dropped from, or odd lines added to, a snapshot
MaxJitter == 1      \* seconds the wait may overrun

DigitTok(d) == CHOOSE c \in Digits : DigitVal(c) = d

\* The decimal text of a natural number, one token per digit.
RECURSIVE ToTokens(_)
ToTokens(n) == IF n < 10 THEN <<DigitTok(n)>>
               ELSE ToTokens(n \div 10) \o <<DigitTok(n % 10)>>

Label(key, val) == <<key, "=", "\"">> \o val \o <<"\"">>
Labelled(name, labels, value) == <<name, "{">> \o labels \o <<"}", " ">> \o value
Bare(name, value) == <<name, " ">> \o value

CounterText(level) == ToTokens(100 + 30 * level)
GaugeText(level) == ToTokens(5000 + 7 * level)

Families == {"rx", "tx", "mem", "fs", "cpu", "reads", "writes", "rbytes", "wbytes"}
Oddities == {"garbage", "badfloat", "newdisk"}

\* A healthy scrape at a counter level: every family the collectors read,
\* each line tagged with its family.
Healthy(level) ==
    << [fam |-> "rx", line |-> Labelled("node_network_receive_bytes_total",
            Label("device", <<"eth0">>), CounterText(level))],
       [fam |-> "tx", line |-> Labelled("node_network_transmit_bytes_total",
            Label("device", <<"eth0">>), CounterText(level))],
       [fam |-> "mem", line |-> Bare("node_memory_MemAvailable_bytes", GaugeText(level))],
       [fam |-> "fs", line |-> Labelled("node_filesystem_free_bytes",
            Label("device", <<"sda">>) \o <<",">> \o Label("mountpoint", <<"/">>),
            GaugeText(level))],
       [fam |-> "cpu", line |-> Labelled("node_cpu_seconds_total",
            Label("cpu", <<"0">>) \o <<",">> \o Label("mode", <<"idle">>),
            CounterText(level))],
       [fam |-> "cpu", line |-> Labelled("node_cpu_seconds_total",
            Label("cpu", <<"0">>) \o <<",">> \o Label("mode", <<"user">>),
            CounterText(2 * level))],
       [fam |-> "reads", line |-> Labelled("node_disk_reads_completed_total",
            Label("device", <<"sda">>), CounterText(level))],
       [fam |-> "writes", line |-> Labelled("node_disk_writes_completed_total",
            Label("device", <<"sda">>), CounterText(level))],
       [fam |-> "rbytes", line |-> Labelled("node_disk_read_bytes_total",
            Label("device", <<"sda">>), CounterText(level))],
       [fam |-> "wbytes", line |-> Labelled("node_disk_written_bytes_total",
            Label("device", <<"sda">>), CounterText(level))] >>

\* Lines a scrape may hold besides: one that matches no pattern, a CPU line
\* whose value is +Inf, and the read counter of a disk that has just appeared.
Odd(level) ==
    << [fam |-> "garbage", line |-> <<"garbage", "{", "unterminated">>],
       [fam |-> "badfloat", line |-> Labelled("node_cpu_seconds_total",
            Label("cpu", <<"1">>) \o <<",">> \o Label("mode", <<"idle">>),
            <<"+", "Inf">>)],
       [fam |-> "newdisk", line |-> Labelled("node_disk_reads_completed_total",
            Label("device", <<"sdb">>), CounterText(level))] >>

\* The scrape at a level with the families in edits dropped and the odd
\* lines in edits added, after a comment line.
TextOf(level, edits) ==
    LET kept == SelectSeq(Healthy(level), LAMBDA l : l.fam \notin edits)
        odd == SelectSeq(Odd(level), LAMBDA l : l.fam \in edits)
        all == kept \o odd
    IN  << <<"#", " ", "HELP">> >> \o [i \in 1..Len(all) |-> all[i].line]

EditSets == {e \in SUBSET (Families \cup Oddities) : Cardinality(e) <= MaxEdits}
Snapshots == {TextOf(level, e) : level \in 0..MaxLevel, e \in EditSets}

(***************************************************************************)
(* One cycle: write_into_db.main                                           *)
(***************************************************************************)
SLEEP_SECONDS == 10

NoTables == [t \in Tables |-> <<>>]
Fresh(tables, printed) == [db |-> tables, diag |-> printed, raised |-> "none", calls |-> 0]

\* The variables of the other specifications, which a cycle leaves alone.
notCycle == <<parseVars, rateVars, utilVars, remapVars, runVars>>

CycleInit ==
    /\ pc = "fetch1" /\ text1 = <<>> /\ text2 = <<>>
    /\ elapsed = 0 /\ clock = 0
    /\ db = NoTables /\ diag = {} /\ raised = "none" /\ ran = {} /\ failed = "none"

\* fetch_raw_metrics: the body of the response, or the exception of
\* requests.get or raise_for_status.
FetchFirst ==
    /\ pc = "fetch1"
    /\ \/ \E text \in Snapshots :
             /\ text1' = text /\ pc' = "sleep" /\ UNCHANGED <<raised, failed>>
       \/ /\ pc' = "crashed" /\ raised' = "RequestException" /\ failed' = "fetch1"
          /\ UNCHANGED text1
    /\ diag' = diag \cup {[msg |-> "Fetching first snapshot", what |-> "main"]}
    /\ UNCHANGED <<text2, elapsed, clock, db, ran>>
    /\ UNCHANGED notCycle

\* time.sleep(10): at least the ten seconds.
Sleep ==
    /\ pc = "sleep"
    /\ \E jitter \in 0..MaxJitter :
          /\ elapsed' = SLEEP_SECONDS + jitter
          /\ clock' = clock + SLEEP_SECONDS + jitter
    /\ pc' = "fetch2"
    /\ UNCHANGED <<text1, text2, db, diag, raised, ran, failed>>
    /\ UNCHANGED notCycle

\* A second fetch whose failure is swallowed: the cycle goes on without it.
FetchSecond_Swallowed ==
    /\ pc = "fetch2"
    /\ \/ \E text \in Snapshots : text2' = text
       \/ UNCHANGED text2
    /\ pc' = "bandwidth"
    /\ diag' = diag \cup {[msg |-> "Fetching second snapshot", what |-> "main"]}
    /\ UNCHANGED <<text1, elapsed, clock, db, ran, raised, failed>>
    /\ UNCHANGED notCycle

FetchSecond ==
    /\ pc = "fetch2"
    /\ \/ \E text \in Snapshots :
             /\ text2' = text /\ pc' = "bandwidth" /\ UNCHANGED <<raised, failed>>
       \/ /\ pc' = "crashed" /\ raised' = "RequestException" /\ failed' = "fetch2"
          /\ UNCHANGED text2
    /\ diag' = diag \cup {[msg |-> "Fetching second snapshot", what |-> "main"]}
    /\ UNCHANGED <<text1, elapsed, clock, db, ran>>
    /\ UNCHANGED notCycle

\* A collector called from main: its effects are kept; an exception it
\* lets out ends main, which catches nothing.
Collected(st, here, next) ==
    /\ db' = st.db /\ diag' = st.diag /\ raised' = st.raised
    /\ pc' = IF st.raised = "none" THEN next ELSE "crashed"
    /\ ran' = IF st.raised = "none" THEN ran \cup {here} ELSE ran
    /\ failed' = IF st.raised = "none" THEN failed ELSE here
    /\ UNCHANGED <<text1, text2, elapsed, clock>>
    /\ UNCHANGED notCycle

MaxInserts == 2     \* to_sql calls one collector makes at most

StoreBandwidth ==
    /\ pc = "bandwidth"
    /\ \E failAt \in 0..MaxInserts :
          Collected(store_bandwidth(Fresh(db, diag), text1, text2, clock, failAt),
                    "bandwidth", "memory")

StoreMemory ==
    /\ pc = "memory"
    /\ \E failAt \in 0..MaxInserts :
          Collected(store_memory(Fresh(db, diag), text2, clock, failAt),
                    "memory", "disk_free")

StoreDiskFree ==
    /\ pc = "disk_free"
    /\ \E failAt \in 0..MaxInserts :
          Collected(store_disk_free(Fresh(db, diag), text2, clock, failAt),
                    "disk_free", "cpu")

StoreCpu ==
    /\ pc = "cpu"
    /\ \E failAt \in 0..MaxInserts :
          Collected(store_cpu(Fresh(db, diag), text1, text2, clock, failAt),
                    "cpu", "disk_io")

StoreDiskIo ==
    /\ pc = "disk_io"
    /\ \E failAt \in 0..MaxInserts :
          Collected(store_disk_iops_throughput(Fresh(db, diag), text1, text2, clock, failAt),
                    "disk_io", "finish")

Finish ==
    /\ pc = "finish"
    /\ pc' = "done"
    /\ diag' = diag \cup {[msg |-> "All metrics collected and stored", what |-> "main"]}
    /\ UNCHANGED <<text1, text2, elapsed, clock, db, raised, ran, failed>>
    /\ UNCHANGED notCycle

\* The variables of a specification that is not running.
CycleOff ==
    /\ pc = "off" /\ text1 = <<>> /\ text2 = <<>> /\ elapsed = 0 /\ clock = 0
    /\ db = NoTables /\ diag = {} /\ raised = "none" /\ ran = {} /\ failed = "none"
ParseOff ==
    /\ ptext = <<>> /\ ppat = CpuPattern /\ pres = [raised |-> "off", df |-> EmptyFrame]
    /\ psamples = <<>>
RateOff == rdf1 = EmptyFrame /\ rdf2 = EmptyFrame /\ rout = [raised |-> "off", df |-> EmptyFrame]
UtilOff ==
    /\ udf = EmptyFrame
    /\ usheet = [ran |-> FALSE, numeric |-> <<>>]
    /\ umonthly = [ran |-> FALSE, util |-> <<>>, mean |-> <<>>]
RemapOff == mid = NaN /\ mtable = "off" /\ mout = <<>>
RunOff == rnext = 0 /\ rstarted = <<>> /\ rcodes = <<>> /\ rlog = <<>>

Init == CycleInit /\ ParseOff /\ RateOff /\ UtilOff /\ RemapOff /\ RunOff

Next ==
    \/ FetchFirst \/ Sleep \/ FetchSecond
    \/ StoreBandwidth \/ StoreMemory \/ StoreDiskFree \/ StoreCpu \/ StoreDiskIo
    \/ Finish

\* One cycle of write_into_db.main.
Spec == Init /\ [][Next]_vars

(***************************************************************************)
(* calculate_rate on its own: any two frames of device counters            *)
(***************************************************************************)
MaxRateRows == 2    \* samples in one snapshot
MaxRateValue == 1   \* counter values 0..MaxRateValue

RateDevices == {<<"sda">>, <<"sdb">>}
JoinKeys == {<<"device">>, <<"instance", "device">>}

\* The rows of a parsed counter family after the caller's default instance.
RateRows ==
    {("instance" :> Str(DEFAULT_INSTANCE)) @@ ("device" :> Str(dev)) @@ ("value" :> Num(v, 1)) :
        dev \in RateDevices, v \in 0..MaxRateValue}

RateFrames ==
    {DataFrameOf(rows) : rows \in UNION {[1..n -> RateRows] : n \in 0..MaxRateRows}}

RateInit ==
    /\ rdf1 \in RateFrames /\ rdf2 \in RateFrames
    /\ rout = [raised |-> "pending", df |-> EmptyFrame]

CalculateRate ==
    /\ rout.raised = "pending"
    /\ \E on \in JoinKeys : rout' = calculate_rate(rdf1, rdf2, on, "value")
    /\ UNCHANGED <<rdf1, rdf2>>
    /\ UNCHANGED <<cycleVars, parseVars, utilVars, remapVars, runVars>>

InitRate == CycleOff /\ ParseOff /\ RateInit /\ UtilOff /\ RemapOff /\ RunOff
NextRate == CalculateRate

\* calculate_rate applied to any two frames within the bounds.
SpecRate == InitRate /\ [][NextRate]_vars

\* calculate_rate has returned a frame.
RateReturned == rout.raised = "none"

\* The rows of df whose device is dev.
RowsOf(df, dev) == {i \in 1..Len(df.rows) : df.rows[i]["device"] = Str(dev)}

\* No two samples of a snapshot share the join key.
UniqueKeys(df) == \A dev \in RateDevices : Cardinality(RowsOf(df, dev)) <= 1

\* C1: every row calculate_rate returns has a rate that is a number >= 0,
\* and no row returned pairs a newer value below its older value (such a
\* pair is dropped, not corrected).
C1_RateNonNegative ==
    RateReturned =>
        \A i \in 1..Len(rout.df.rows) :
            /\ IsNum(rout.df.rows[i]["value_rate"])
            /\ rout.df.rows[i]["value_rate"].n >= 0
            /\ ~NumLt(rout.df.rows[i]["value_new"], rout.df.rows[i]["value_old"])

\* A counter went down between the snapshots, another did not, and
\* calculate_rate returned the second alone.
C1_Witness ==
    /\ RateReturned
    /\ \E i \in 1..Len(rdf1.rows), j \in 1..Len(rdf2.rows) :
          /\ rdf1.rows[i]["device"] = rdf2.rows[j]["device"]
          /\ NumLt(rdf2.rows[j]["value"], rdf1.rows[i]["value"])
    /\ Len(rout.df.rows) = 1

\* C2 as stated: every device sampled in both snapshots has exactly one row
\* in the result, every device sampled in one snapshot only has none (on
\* snapshots whose samples have distinct keys).
C2_JoinCompleteAsStated ==
    (RateReturned /\ UniqueKeys(rdf1) /\ UniqueKeys(rdf2)) =>
        \A dev \in RateDevices :
            Cardinality(RowsOf(rout.df, dev)) =
                IF RowsOf(rdf1, dev) # {} /\ RowsOf(rdf2, dev) # {} THEN 1 ELSE 0

\* The older and the newer value of a device sampled once in each snapshot.
OldValue(dev) == rdf1.rows[CHOOSE i \in RowsOf(rdf1, dev) : TRUE]["value"]
NewValue(dev) == rdf2.rows[CHOOSE j \in RowsOf(rdf2, dev) : TRUE]["value"]

\* C2 amended: on snapshots whose samples have distinct keys, a device
\* sampled in both snapshots has exactly one row when its newer value is
\* not below its older value and none when it is; a device sampled in one
\* snapshot only has none.
C2_JoinComplete ==
    (RateReturned /\ UniqueKeys(rdf1) /\ UniqueKeys(rdf2)) =>
        \A dev \in RateDevices :
            Cardinality(RowsOf(rout.df, dev)) =
                IF /\ RowsOf(rdf1, dev) # {} /\ RowsOf(rdf2, dev) # {}
                   /\ ~NumLt(NewValue(dev), OldValue(dev))
                THEN 1 ELSE 0

\* sda is sampled in both snapshots and did not go down, sdb appears in the
\* second snapshot only: the result is the one row of sda.
C2_Witness ==
    /\ RateReturned /\ UniqueKeys(rdf1) /\ UniqueKeys(rdf2)
    /\ RowsOf(rdf1, <<"sda">>) # {} /\ RowsOf(rdf2, <<"sda">>) # {}
    /\ RowsOf(rdf1, <<"sdb">>) = {} /\ RowsOf(rdf2, <<"sdb">>) # {}
    /\ Cardinality(RowsOf(rout.df, <<"sda">>)) = 1
    /\ RowsOf(rout.df, <<"sdb">>) = {}

(***************************************************************************)
(* Properties of one cycle                                                 *)
(***************************************************************************)
Collectors == {"bandwidth", "memory", "disk_free", "cpu", "disk_io"}
CollectorStages == {"bandwidth", "memory", "disk_free", "cpu", "disk_io", "finish", "done"}

\* Both snapshots were fetched, the second after the wait that followed the first.
BothFetched == text1 # <<>> /\ text2 # <<>> /\ elapsed >= SLEEP_SECONDS

\* rate is (new - old) / seconds.
Explains(rate, old, new, seconds) ==
    IsNum(rate) /\ IsNum(old) /\ IsNum(new) /\ NumMulInt(rate, seconds) = NumSub(new, old)

\* Every persisted rate column: its table, the family it is computed from,
\* and for the bandwidth table the mode of the rows of that family.
RateColumns ==
    { [table |-> "bandwidth", col |-> "value", pattern |-> RxPattern, mode |-> <<"receive">>],
      [table |-> "bandwidth", col |-> "value", pattern |-> TxPattern, mode |-> <<"transmit">>],
      [table |-> "cpu_cstate_rates", col |-> "rate_per_sec", pattern |-> CpuPattern, mode |-> <<>>],
      [table |-> "disk_iops", col |-> "read_iops", pattern |-> ReadsPattern, mode |-> <<>>],
      [table |-> "disk_iops", col |-> "write_iops", pattern |-> WritesPattern, mode |-> <<>>],
      [table |-> "disk_throughput", col |-> "read_bytes_per_sec", pattern |-> RBytesPattern, mode |-> <<>>],
      [table |-> "disk_throughput", col |-> "write_bytes_per_sec", pattern |-> WBytesPattern, mode |-> <<>>] }

\* The persisted rows a rate column covers.
RateRowsOf(rc) ==
    {i \in 1..Len(db[rc.table]) : rc.mode = <<>> \/ db[rc.table][i]["mode"] = Str(rc.mode)}

\* Two samples with the same labels, one of each snapshot, whose difference
\* over the seconds waited is the rate.
FromSamples(rate, old, new, seconds) ==
    \E i \in 1..Len(old.rows), j \in 1..Len(new.rows) :
        /\ \A c \in (old.cols \cap new.cols) \ {"value"} : old.rows[i][c] = new.rows[j][c]
        /\ Explains(rate, old.rows[i]["value"], new.rows[j]["value"], seconds)

\* C3: every persisted rate is (newer value - older value) / elapsed, for
\* samples of its family with the same labels, where elapsed is the time
\* the cycle waited between its two fetches.
C3_RateOverElapsed ==
    \A rc \in RateColumns : \A i \in RateRowsOf(rc) :
        FromSamples(db[rc.table][i][rc.col],
                    parse_metric(rc.pattern, text1, "value").df,
                    parse_metric(rc.pattern, text2, "value").df, elapsed)

\* C4: when a collector fails, every other collector of the cycle has run
\* to completion by the time the cycle ends; a cycle that ends normally has
\* run all five.
C4_FailureIsolation ==
    /\ (pc = "crashed" /\ failed \in Collectors) => ran = Collectors \ {failed}
    /\ pc = "done" => ran = Collectors

\* What each collector reads: the family, whether from both snapshots or
\* the newer one only, the table it fills, and the mode of its bandwidth rows.
Reads ==
    { [collector |-> "bandwidth", pattern |-> RxPattern, both |-> TRUE, table |-> "bandwidth", mode |-> <<"receive">>],
      [collector |-> "bandwidth", pattern |-> TxPattern, both |-> TRUE, table |-> "bandwidth", mode |-> <<"transmit">>],
      [collector |-> "memory", pattern |-> MemPattern, both |-> FALSE, table |-> "ram_stats", mode |-> <<>>],
      [collector |-> "disk_free", pattern |-> FsPattern, both |-> FALSE, table |-> "disk_free_space", mode |-> <<>>],
      [collector |-> "cpu", pattern |-> CpuPattern, both |-> TRUE, table |-> "cpu_cstate_rates", mode |-> <<>>],
      [collector |-> "disk_io", pattern |-> ReadsPattern, both |-> TRUE, table |-> "disk_iops", mode |-> <<>>],
      [collector |-> "disk_io", pattern |-> WritesPattern, both |-> TRUE, table |-> "disk_iops", mode |-> <<>>],
      [collector |-> "disk_io", pattern |-> RBytesPattern, both |-> TRUE, table |-> "disk_throughput", mode |-> <<>>],
      [collector |-> "disk_io", pattern |-> WBytesPattern, both |-> TRUE, table |-> "disk_throughput", mode |-> <<>>] }

\* The text holds no sample of the family (and parses without error).
Absent(pattern, text) ==
    /\ parse_metric(pattern, text, "value").raised = "none"
    /\ IsEmpty(parse_metric(pattern, text, "value").df)

\* The collector of rd has been called with the family of rd absent from a
\* snapshot it reads it from, and the sink did not fail.
CalledWithout(rd) ==
    /\ rd.collector \in ran \/ failed = rd.collector
    /\ raised # "SinkError"
    /\ Absent(rd.pattern, text2) \/ (rd.both /\ Absent(rd.pattern, text1))

\* C5: a collector called with a family it reads absent returns without
\* raising, persists no record of that family, and prints a diagnostic
\* that names the collector or the table.
C5_EmptyFamilyHandled ==
    \A rd \in Reads :
        CalledWithout(rd) =>
            /\ rd.collector \in ran
            /\ \A i \in 1..Len(db[rd.table]) :
                  rd.mode # <<>> /\ db[rd.table][i]["mode"] # Str(rd.mode)
            /\ \E d \in diag : d.what \in {rd.collector, rd.table} /\ d.msg # "Inserted"

\* C7: collectors run, and records are persisted, only after both fetches
\* succeeded in order (fetch 1, wait, fetch 2); a failed fetch ends the
\* cycle with nothing persisted and no collector run.
C7_FetchFailureIsFatal ==
    /\ (pc \in CollectorStages \/ ran # {} \/ db # NoTables \/ failed \in Collectors)
          => BothFetched
    /\ text2 # <<>> => (text1 # <<>> /\ elapsed >= SLEEP_SECONDS)
    /\ elapsed > 0 => text1 # <<>>
    /\ raised = "RequestException" => (pc = "crashed" /\ db = NoTables /\ ran = {})

\* The first fetch succeeded, the second failed: the cycle is over and
\* nothing is persisted.
C7_Witness ==
    /\ failed = "fetch2" /\ raised = "RequestException" /\ pc = "crashed"
    /\ text1 # <<>> /\ db = NoTables

(***************************************************************************)
(* parse_metric alone, on texts of a few lines                             *)
(***************************************************************************)
MaxLines == 3

CPU_NAME == "node_cpu_seconds_total"
MEM_NAME == "node_memory_MemAvailable_bytes"

\* Lines a text may hold, each with the family it belongs to, whether it is
\* a valid sample line of that family, and the value it then carries.
LinePool ==
    { [name |-> CPU_NAME, valid |-> TRUE, value |-> Num(12, 1),
       line |-> Labelled(CPU_NAME, Label("cpu", <<"0">>) \o <<",">> \o Label("mode", <<"idle">>),
                         <<"1", "2">>)],
      [name |-> CPU_NAME, valid |-> TRUE, value |-> Num(15, 1),
       line |-> Labelled(CPU_NAME, Label("cpu", <<"0">>) \o <<",">> \o Label("mode", <<"user">>),
                         <<"1", ".", "5", "e", "1">>)],
      [name |-> CPU_NAME, valid |-> FALSE, value |-> NaN,
       line |-> Labelled(CPU_NAME, Label("cpu", <<"1">>) \o <<",">> \o Label("mode", <<"idle">>),
                         <<"+", "Inf">>)],
      [name |-> CPU_NAME, valid |-> FALSE, value |-> NaN,
       line |-> Labelled(CPU_NAME, <<"cpu", "=", "0">>, <<"7">>)],
      [name |-> MEM_NAME, valid |-> TRUE, value |-> Num(5000, 1),
       line |-> Bare(MEM_NAME, <<"5", "e", "3">>)],
      [name |-> MEM_NAME, valid |-> FALSE, value |-> NaN,
       line |-> Bare(MEM_NAME, <<"1", ".", "2", ".", "3">>)],
      [name |-> "garbage", valid |-> FALSE, value |-> NaN,
       line |-> <<"garbage", "{", "unterminated">>],
      [name |-> "#", valid |-> FALSE, value |-> NaN,
       line |-> <<"#", " ", "HELP">>] }

PoolLines == {e.line : e \in LinePool}

RECURSIVE TextsOf(_)
TextsOf(n) ==
    IF n = 0 THEN {<<>>}
    ELSE TextsOf(n - 1) \cup {Append(t, l) : t \in {u \in TextsOf(n - 1) : Len(u) = n - 1}, l \in PoolLines}

ParseInit ==
    /\ ptext \in TextsOf(MaxLines)
    /\ ppat \in {CpuPattern, MemPattern}
    /\ pres = [raised |-> "off", df |-> EmptyFrame]
    /\ psamples = <<>>

ParseMetric ==
    /\ pres.raised = "off"
    /\ pres' = parse_metric(ppat, ptext, "value")
    /\ UNCHANGED <<ptext, ppat, psamples>>
    /\ UNCHANGED <<cycleVars, rateVars, utilVars, remapVars, runVars>>

InitParse == CycleOff /\ ParseInit /\ RateOff /\ UtilOff /\ RemapOff /\ RunOff
NextParse == ParseMetric

\* parse_metric applied once to a text.
SpecParse == InitParse /\ [][NextParse]_vars

\* The values of the valid lines of the pattern's family in the text, in order.
ValidValues(pattern, text) ==
    LET ok == SelectSeq(text, LAMBDA l :
                  \E e \in LinePool : e.line = l /\ e.valid /\ e.name = pattern.name)
    IN  [k \in 1..Len(ok) |-> (CHOOSE e \in LinePool : e.line = ok[k]).value]

\* C6: parse_metric never raises, and its result holds one Sample for each
\* valid line of the family, in order and with that line's value, and none
\* for any other line.
C6_LineRecovery ==
    pres.raised # "off" =>
        /\ pres.raised = "none"
        /\ Len(pres.df.rows) = Len(ValidValues(ppat, ptext))
        /\ \A k \in 1..Len(pres.df.rows) :
              pres.df.rows[k]["value"] = ValidValues(ppat, ptext)[k]

(***************************************************************************)
(* The CPU utilization roll-ups of sheet_to_looker and monthly             *)
(***************************************************************************)
MaxUtilRows == 2
MaxUtilRate == 2

\* A timestamp: its month, its minute and the seconds into the minute.
\* NaT is what to_datetime(errors='coerce') leaves of an unreadable one.
NaT == [month |-> 0, minute |-> 0, second |-> 0]
Stamps ==
    { NaT,
      [month |-> 1, minute |-> 1, second |-> 0],
      [month |-> 1, minute |-> 1, second |-> 30],
      [month |-> 2, minute |-> 2, second |-> 0] }

UTIL_COLUMNS == {"timestamp", "state", "rate_per_sec"}
IDLE_STATES == {"idle", "iowait"}

\* An infinite cell, the result of dividing a nonzero number by zero.
Inf(sign) == [t |-> "inf", s |-> <<>>, n |-> sign, d |-> 1]

\* a / b of two cells, as floats divide: 0/0 is NaN, x/0 is infinite.
NumDiv(a, b) ==
    IF ~(IsNum(a) /\ IsNum(b)) THEN NaN
    ELSE IF b.n = 0 THEN (IF a.n = 0 THEN NaN ELSE Inf(IF a.n > 0 THEN 1 ELSE -1))
    ELSE IF b.n > 0 THEN Num(a.n * b.d, a.d * b.n)
    ELSE Num(-(a.n * b.d), a.d * (-b.n))

\* 100 * (1 - q).
Percent(q) ==
    IF q.t = "nan" THEN NaN
    ELSE IF q.t = "inf" THEN Inf(-q.n)
    ELSE NumMulInt(NumSub(Num(1, 1), q), 100)

\* Series.clip(lo, hi): NaN stays NaN.
Clip(c, lo, hi) ==
    IF c.t = "nan" THEN NaN
    ELSE IF c.t = "inf" THEN (IF c.n > 0 THEN Num(hi, 1) ELSE Num(lo, 1))
    ELSE IF NumLt(c, Num(lo, 1)) THEN Num(lo, 1)
    ELSE IF NumLt(Num(hi, 1), c) THEN Num(hi, 1)
    ELSE c

\* The integer nearest to n/d for n >= 0, a tie going to the even one.
HalfEven(n, d) ==
    IF 2 * (n % d) < d THEN n \div d
    ELSE IF 2 * (n % d) > d THEN (n \div d) + 1
    ELSE IF (n \div d) % 2 = 0 THEN n \div d
    ELSE (n \div d) + 1

\* Series.round(1) of a clipped value: NaN stays NaN.
Round1(c) == IF c.t = "nan" THEN NaN ELSE Num(HalfEven(10 * c.n, c.d), 10)

\* Series.fillna(v).
FillNa(c, v) == IF c.t = "nan" THEN Num(v, 1) ELSE c

\* x.floor('min') if pd.notnull(x) else x.
Floor(ts) == IF ts = NaT THEN NaT ELSE [ts EXCEPT !.second = 0]

\* truncate_timestamp_to_minute(df).
truncate_timestamp_to_minute(df) ==
    IF "timestamp" \in df.cols
    THEN Frame(df.cols, [i \in 1..Len(df.rows) |->
                            [df.rows[i] EXCEPT !["timestamp"] = Floor(@)]])
    ELSE df

RECURSIVE SumOf(_)
SumOf(rows) ==
    IF rows = <<>> THEN Num(0, 1)
    ELSE NumAdd(Head(rows)["rate_per_sec"], SumOf(Tail(rows)))

\* rows.groupby('timestamp')['rate_per_sec'].sum(): a Series indexed by the
\* timestamps of the rows; rows without a timestamp belong to no group.
GroupSum(rows) ==
    [ts \in {rows[i]["timestamp"] : i \in 1..Len(rows)} \ {NaT} |->
        SumOf(SelectSeq(rows, LAMBDA r : r["timestamp"] = ts))]

\* df[df['state'].isin(['idle', 'iowait'])].
IdleRows(rows) == SelectSeq(rows, LAMBDA r : r["state"] \in IDLE_STATES)

\* The value of a Series at a label after alignment: NaN where it has none.
Aligned(series, ts) == IF ts \in DOMAIN series THEN series[ts] ELSE NaN

\* sheet_to_looker: 100 * (1 - idle_rate / total_rate), clipped, rounded,
\* what is missing then filled with 0.
SheetUtil(total_rate, idle_rate) ==
    [ts \in (DOMAIN total_rate) \cup (DOMAIN idle_rate) |->
        FillNa(Round1(Clip(Percent(NumDiv(Aligned(idle_rate, ts), Aligned(total_rate, ts))),
                           0, 100)), 0)]

\* calculate_cpu_utilization_correct once the timestamps are truncated.
SheetResult(df) ==
    IF ~(UTIL_COLUMNS \subseteq df.cols) THEN [ran |-> TRUE, numeric |-> <<>>]
    ELSE [ran |-> TRUE, numeric |-> SheetUtil(GroupSum(df.rows), GroupSum(IdleRows(df.rows)))]

calculate_cpu_utilization_correct(df) == SheetResult(truncate_timestamp_to_minute(df))

\* preprocess_month(df): the rows that have a timestamp, each with its month.
preprocess_month(df) ==
    LET kept == SelectSeq(df.rows, LAMBDA r : r["timestamp"] # NaT)
    IN  Frame(df.cols \cup {"month"},
              [i \in 1..Len(kept) |->
                  [c \in df.cols \cup {"month"} |->
                      IF c = "month" THEN kept[i]["timestamp"].month ELSE kept[i][c]]])

\* monthly: total and idle side by side with 0 where either is missing,
\* then 100 * (1 - idle / total), clipped.
MonthlyUtil(total, idle) ==
    [ts \in (DOMAIN total) \cup (DOMAIN idle) |->
        Clip(Percent(NumDiv(FillNa(Aligned(idle, ts), 0), FillNa(Aligned(total, ts), 0))),
             0, 100)]

RECURSIVE SumCells(_, _)
SumCells(series, labels) ==
    IF labels = {} THEN Num(0, 1)
    ELSE LET ts == CHOOSE x \in labels : TRUE
         IN  NumAdd(series[ts], SumCells(series, labels \ {ts}))

\* The mean of the values a Series has at the labels, NaN ones skipped;
\* NaN when all are.
MeanOver(series, known) ==
    IF known = {} THEN NaN ELSE NumDivInt(SumCells(series, known), Cardinality(known))

\* merged.groupby('month')['cpu_util_percent'].mean().
MonthlyMean(util) ==
    [m \in {ts.month : ts \in DOMAIN util} |->
        MeanOver(util, {ts \in DOMAIN util : ts.month = m /\ IsNum(util[ts])})]

\* The result of process_cpu_utilization once the per-timestamp values are
\* known: those values and the monthly means it returns.
MonthlyOver(util) == [ran |-> TRUE, util |-> util, mean |-> MonthlyMean(util)]

\* process_cpu_utilization once the months are known.
MonthlyResult(df) ==
    IF ~(UTIL_COLUMNS \subseteq df.cols) THEN [ran |-> TRUE, util |-> <<>>, mean |-> <<>>]
    ELSE MonthlyOver(MonthlyUtil(GroupSum(df.rows), GroupSum(IdleRows(df.rows))))

process_cpu_utilization(df) == MonthlyResult(preprocess_month(df))

\* The rows of the cpu_cstate_rates table the roll-ups may read.
UtilStates == {"idle", "iowait", "user"}
UtilRows ==
    { [timestamp |-> ts, state |-> st, rate_per_sec |-> Num(r, 1)] :
        ts \in Stamps, st \in UtilStates, r \in 0..MaxUtilRate }

RECURSIVE UtilSeqs(_)
UtilSeqs(n) ==
    IF n = 0 THEN {<<>>}
    ELSE UtilSeqs(n - 1) \cup
         {Append(q, r) : q \in {u \in UtilSeqs(n - 1) : Len(u) = n - 1}, r \in UtilRows}

\* The table as read, with all its columns or without the state column.
UtilFrames ==
    { Frame(cols, [i \in 1..Len(q) |-> [c \in cols |-> q[i][c]]]) :
        q \in UtilSeqs(MaxUtilRows), cols \in {UTIL_COLUMNS, UTIL_COLUMNS \ {"state"}} }

UtilInit ==
    /\ udf \in UtilFrames
    /\ usheet = [ran |-> FALSE, numeric |-> <<>>]
    /\ umonthly = [ran |-> FALSE, util |-> <<>>, mean |-> <<>>]

SheetUtilization ==
    /\ ~usheet.ran
    /\ usheet' = calculate_cpu_utilization_correct(udf)
    /\ UNCHANGED <<udf, umonthly>>
    /\ UNCHANGED <<cycleVars, parseVars, rateVars, remapVars, runVars>>

MonthlyUtilization ==
    /\ ~umonthly.ran
    /\ umonthly' = process_cpu_utilization(udf)
    /\ UNCHANGED <<udf, usheet>>
    /\ UNCHANGED <<cycleVars, parseVars, rateVars, remapVars, runVars>>

InitUtil == CycleOff /\ ParseOff /\ RateOff /\ UtilInit /\ RemapOff /\ RunOff
NextUtil == SheetUtilization \/ MonthlyUtilization

\* The two roll-ups, each applied once to the same rows.
SpecUtil == InitUtil /\ [][NextUtil]_vars

\* A utilization value within 0..100.
InBounds(c) == IsNum(c) /\ ~NumLt(c, Num(0, 1)) /\ ~NumLt(Num(100, 1), c)

\* C8: every per-timestamp CPU utilization either roll-up computes is a
\* number between 0 and 100.
C8_UtilizationBound ==
    /\ \A ts \in DOMAIN usheet.numeric : InBounds(usheet.numeric[ts])
    /\ \A ts \in DOMAIN umonthly.util : InBounds(umonthly.util[ts])

\* The total rate and the idle rate at each timestamp as each roll-up
\* groups the rows: by the minute in the sheet, by the timestamp in monthly.
SheetTotal == GroupSum(truncate_timestamp_to_minute(udf).rows)
SheetIdle == GroupSum(IdleRows(truncate_timestamp_to_minute(udf).rows))
MonthlyTotal == GroupSum(preprocess_month(udf).rows)
MonthlyIdle == GroupSum(IdleRows(preprocess_month(udf).rows))

\* C9: at a timestamp whose total rate is 0, the utilization either
\* roll-up computes is exactly 0.
C9_ZeroTotalIsZero ==
    /\ \A ts \in DOMAIN usheet.numeric :
          SheetTotal[ts] = Num(0, 1) => usheet.numeric[ts] = Num(0, 1)
    /\ \A ts \in DOMAIN umonthly.util :
          MonthlyTotal[ts] = Num(0, 1) => umonthly.util[ts] = Num(0, 1)

\* 100 * (1 - idle / total) clamped to 0..100, idle being 0 at a timestamp
\* without idle rows.
Formula(total, idle, ts) ==
    Clip(Percent(NumDiv(FillNa(Aligned(idle, ts), 0), total[ts])), 0, 100)

\* C10: at a timestamp whose total rate is above 0, the utilization either
\* roll-up computes is 100 * (1 - idle / total) clamped to 0..100.
C10_UtilizationFormula ==
    /\ \A ts \in DOMAIN usheet.numeric :
          NumLt(Num(0, 1), SheetTotal[ts]) =>
              usheet.numeric[ts] = Formula(SheetTotal, SheetIdle, ts)
    /\ \A ts \in DOMAIN umonthly.util :
          NumLt(Num(0, 1), MonthlyTotal[ts]) =>
              umonthly.util[ts] = Formula(MonthlyTotal, MonthlyIdle, ts)

(***************************************************************************)
(* The identifier remap of store_disk_free and store_disk_iops_throughput  *)
(***************************************************************************)
MaxIdLen == 2
MaxApplications == 2

REMAP_TABLES == {"mount", "device"}
TableOf(name) == IF name = "mount" THEN MOUNT_MAP ELSE DEVICE_MAP

IdTokens == {"/", "run", "lock", "sda", "sdb", "C", "D", "E", "nvme0n1"}

RECURSIVE IdsOf(_)
IdsOf(n) ==
    IF n = 0 THEN {<<>>}
    ELSE IdsOf(n - 1) \cup
         {Append(q, t) : q \in {u \in IdsOf(n - 1) : Len(u) = n - 1}, t \in IdTokens}

\* The cells a volume column may hold: every key and every value of both
\* tables, other short identifiers, and a missing one.
Identifiers ==
    {Str(k) : k \in (DOMAIN MOUNT_MAP) \cup (DOMAIN DEVICE_MAP)}
    \cup {Str(MOUNT_MAP[k]) : k \in DOMAIN MOUNT_MAP}
    \cup {Str(DEVICE_MAP[k]) : k \in DOMAIN DEVICE_MAP}
    \cup {Str(q) : q \in IdsOf(MaxIdLen)}
    \cup {NaN}

RemapInit == mid \in Identifiers /\ mtable \in REMAP_TABLES /\ mout = <<>>

\* df["volume"].map(table).fillna(df["volume"]) applied to the identifier,
\* then to what the application before returned.
ApplyRemap ==
    /\ mtable \in REMAP_TABLES
    /\ Len(mout) < MaxApplications
    /\ mout' = Append(mout, Remap(TableOf(mtable), IF mout = <<>> THEN mid ELSE mout[Len(mout)]))
    /\ UNCHANGED <<mid, mtable>>
    /\ UNCHANGED <<cycleVars, parseVars, rateVars, utilVars, runVars>>

InitRemap == CycleOff /\ ParseOff /\ RateOff /\ UtilOff /\ RemapInit /\ RunOff
NextRemap == ApplyRemap

\* The remap applied to one identifier, again and again.
SpecRemap == InitRemap /\ [][NextRemap]_vars

\* The identifier is a key of the table.
IsKey == mid.t = "str" /\ mid.s \in DOMAIN TableOf(mtable)

\* C11: applying a remap table again gives what applying it once gave, and
\* an identifier that is not a key of the table comes back unchanged.
C11_IdempotentRemap ==
    /\ \A k \in 2..Len(mout) : mout[k] = mout[1]
    /\ (Len(mout) >= 1 /\ ~IsKey) => mout[1] = mid

\* A key of the table was remapped to another identifier, and remapped again.
C11_Witness == Len(mout) = 2 /\ IsKey /\ mout[1] # mid

(***************************************************************************)
(* parse_metric on texts written from samples                              *)
(***************************************************************************)
MaxSamples == 2

\* What a label value and a sample value may be: plain words, an empty
\* value, a value holding a brace, a value holding a quote; whole numbers,
\* a half, a negative number and +Inf.
LabelKeys == <<"cpu", "mode">>
LabelValues == {<<"0">>, <<"idle">>, <<>>, <<"a", "}", "b">>, <<"x", "\"">>}
SampleValues == {Num(0, 1), Num(130, 1), Num(1, 2), Num(-3, 1), Inf(1)}

\* The label mappings over the keys from the k-th on, each a sequence of
\* (key, value) pairs in the order of the keys.
RECURSIVE MappingsFrom(_)
MappingsFrom(k) ==
    IF k > Len(LabelKeys) THEN {<<>>}
    ELSE MappingsFrom(k + 1) \cup
         {<<[key |-> LabelKeys[k], val |-> v]>> \o m : v \in LabelValues, m \in MappingsFrom(k + 1)}

SamplePool == {[labels |-> m, value |-> v] : m \in MappingsFrom(1), v \in SampleValues}

\* The sequences of up to n samples with distinct label mappings.
RECURSIVE SampleSeqs(_)
SampleSeqs(n) ==
    IF n = 0 THEN {<<>>}
    ELSE SampleSeqs(n - 1) \cup
         UNION {{Append(q, x) : x \in {y \in SamplePool :
                                          \A i \in 1..Len(q) : q[i].labels # y.labels}} :
                    q \in {u \in SampleSeqs(n - 1) : Len(u) = n - 1}}

\* A label value as the exposition format writes it: a quote and a
\* backslash are escaped with a backslash.
RECURSIVE Escaped(_)
Escaped(val) ==
    IF val = <<>> THEN <<>>
    ELSE (IF Head(val) \in {"\"", "\\"} THEN <<"\\", Head(val)>> ELSE <<Head(val)>>)
         \o Escaped(Tail(val))

\* key="value" pairs separated by commas.
RECURSIVE LabelsText(_)
LabelsText(labels) ==
    IF labels = <<>> THEN <<>>
    ELSE Label(Head(labels).key, Escaped(Head(labels).val))
         \o (IF Len(labels) > 1 THEN <<",">> ELSE <<>>) \o LabelsText(Tail(labels))

\* A sample value as the exposition format writes it: the digits of a whole
\* number, ".5" after them for a half, a sign before a negative one, +Inf.
ValueText(v) ==
    IF v.t = "inf" THEN <<(IF v.n > 0 THEN "+" ELSE "-"), "Inf">>
    ELSE (IF v.n < 0 THEN <<"-">> ELSE <<>>)
         \o ToTokens(Abs(v.n) \div v.d)
         \o (IF v.d = 2 THEN <<".", "5">> ELSE <<>>)

\* One line per sample; a sample without labels is written without braces.
SampleLine(name, sample) ==
    IF sample.labels = <<>> THEN Bare(name, ValueText(sample.value))
    ELSE Labelled(name, LabelsText(sample.labels), ValueText(sample.value))

Serialized(name, samples) == [i \in 1..Len(samples) |-> SampleLine(name, samples[i])]

RoundInit ==
    /\ psamples \in SampleSeqs(MaxSamples)
    /\ ppat \in {CpuPattern, MemPattern}
    /\ ptext = Serialized(ppat.name, psamples)
    /\ pres = [raised |-> "off", df |-> EmptyFrame]

InitRound == CycleOff /\ RoundInit /\ RateOff /\ UtilOff /\ RemapOff /\ RunOff
NextRound == ParseMetric

\* parse_metric applied to the text written from a set of samples.
SpecRound == InitRound /\ [][NextRound]_vars

\* The samples written, and the samples a frame holds: each a set of
\* (key, value) label pairs and a value. A label column that is NaN in a
\* row is a label the row's sample does not have.
Written ==
    { [labels |-> {<<psamples[i].labels[j].key, psamples[i].labels[j].val>> :
                      j \in 1..Len(psamples[i].labels)},
       value |-> psamples[i].value] : i \in 1..Len(psamples) }
Recovered ==
    { [labels |-> {<<c, pres.df.rows[i][c].s>> :
                      c \in {x \in pres.df.cols \ {"value"} : pres.df.rows[i][x].t = "str"}},
       value |-> pres.df.rows[i]["value"]] : i \in 1..Len(pres.df.rows) }

\* C12: parse_metric on the text written from samples with distinct label
\* mappings returns, without raising, one row per sample and exactly the
\* samples written.
C12_RoundTrip ==
    pres.raised # "off" =>
        /\ pres.raised = "none"
        /\ Len(pres.df.rows) = Len(psamples)
        /\ Recovered = Written

(***************************************************************************)
(* The gauge records of a cycle                                            *)
(***************************************************************************)
GAUGE_TABLES == {"ram_stats", "disk_free_space"}

\* The rows of a table without the time of their insertion.
Untimed(rows) ==
    [i \in 1..Len(rows) |-> [c \in (DOMAIN rows[i]) \ {"timestamp"} |-> rows[i][c]]]

Gauges(tables) == [t \in GAUGE_TABLES |-> Untimed(tables[t])]

\* The gauge records of a cycle of main on two snapshots whose sink accepts
\* every insert: store_bandwidth, store_memory and store_disk_free in turn,
\* the cycle ending at the first that raises.
GaugesOfCycle(t1, t2) ==
    LET b == store_bandwidth(Fresh(NoTables, {}), t1, t2, 0, 0)
        m == IF b.raised = "none" THEN store_memory(Fresh(b.db, b.diag), t2, 0, 0) ELSE b
        f == IF m.raised = "none" THEN store_disk_free(Fresh(m.db, m.diag), t2, 0, 0) ELSE m
    IN  Gauges(f.db)

\* The cycle is over and the sink refused nothing.
CycleOver == pc \in {"done", "crashed"} /\ text2 # <<>> /\ raised # "SinkError"

\* Every gauge record carries the value of a sample of the newer snapshot,
\* its volume being the remapped mountpoint of that sample.
FromNewerSample ==
    /\ \A i \in 1..Len(db["ram_stats"]) :
          \E j \in 1..Len(parse_metric(MemPattern, text2, "bytes").df.rows) :
              db["ram_stats"][i]["bytes"] = parse_metric(MemPattern, text2, "bytes").df.rows[j]["bytes"]
    /\ \A i \in 1..Len(db["disk_free_space"]) :
          \E j \in 1..Len(parse_metric(FsPattern, text2, "bytes").df.rows) :
              /\ db["disk_free_space"][i]["bytes"] =
                    parse_metric(FsPattern, text2, "bytes").df.rows[j]["bytes"]
              /\ db["disk_free_space"][i]["volume"] =
                    Remap(MOUNT_MAP, parse_metric(FsPattern, text2, "bytes").df.rows[j]["mountpoint"])

\* C13: the gauge records a cycle has persisted are those of any cycle with
\* the same newer snapshot, whatever its older snapshot, and each carries
\* the value of its sample of the newer snapshot.
C13_GaugesFromNewerOnly ==
    CycleOver =>
        /\ FromNewerSample
        /\ \A other \in Snapshots : Gauges(db) = GaugesOfCycle(other, text2)

(***************************************************************************)
(* The script runner: main.py                                              *)
(***************************************************************************)
MaxExitCode == 40

SCRIPTS == <<"write_into_db.py", "sheet_to_looker.py", "daily.py", "monthly.py">>

\* rnext is the index of the script the loop will run next, past the end
\* of the list once the loop is over. A script is running when it has been
\* started and has not exited.
LoopOver == Len(SCRIPTS) + 1
Running == Len(rstarted) = Len(rcodes) + 1
Line(msg, script, code) == [msg |-> msg, script |-> script, code |-> code]

RunInit == rnext = 1 /\ rstarted = <<>> /\ rcodes = <<>> /\ rlog = <<>>

\* print("Running ..."), then subprocess.run starts the script.
StartScript ==
    /\ rnext \in 1..Len(SCRIPTS) /\ ~Running
    /\ rstarted' = Append(rstarted, SCRIPTS[rnext])
    /\ rlog' = Append(rlog, Line("Running", SCRIPTS[rnext], 0))
    /\ UNCHANGED <<rnext, rcodes>>
    /\ UNCHANGED <<cycleVars, parseVars, rateVars, utilVars, remapVars>>

\* print("Running ..."), then subprocess.run cannot start the interpreter:
\* the OSError is not caught and ends main.
StartFails ==
    /\ rnext \in 1..Len(SCRIPTS) /\ ~Running
    /\ rlog' = Append(rlog, Line("Running", SCRIPTS[rnext], 0))
    /\ rnext' = LoopOver
    /\ UNCHANGED <<rstarted, rcodes>>
    /\ UNCHANGED <<cycleVars, parseVars, rateVars, utilVars, remapVars>>

\* The script exits with status 0: the loop goes on to the next one.
ExitOk ==
    /\ Running
    /\ rcodes' = Append(rcodes, 0)
    /\ rlog' = Append(rlog, Line("Successfully ran", SCRIPTS[rnext], 0))
    /\ rnext' = rnext + 1
    /\ UNCHANGED rstarted
    /\ UNCHANGED <<cycleVars, parseVars, rateVars, utilVars, remapVars>>

\* A runner that goes on to the next script after a failure.
ExitFail_Continue ==
    /\ Running
    /\ \E code \in 1..MaxExitCode :
          /\ rcodes' = Append(rcodes, code)
          /\ rlog' = Append(rlog, Line("Error while running", SCRIPTS[rnext], code))
    /\ rnext' = rnext + 1
    /\ UNCHANGED rstarted
    /\ UNCHANGED <<cycleVars, parseVars, rateVars, utilVars, remapVars>>

\* The script exits with another status: check=True raises
\* CalledProcessError, which is reported, and the loop is left.
ExitFail ==
    /\ Running
    /\ \E code \in 1..MaxExitCode :
          /\ rcodes' = Append(rcodes, code)
          /\ rlog' = Append(rlog, Line("Error while running", SCRIPTS[rnext], code))
    /\ rnext' = LoopOver
    /\ UNCHANGED rstarted
    /\ UNCHANGED <<cycleVars, parseVars, rateVars, utilVars, remapVars>>

InitRunner == CycleOff /\ ParseOff /\ RateOff /\ UtilOff /\ RemapOff /\ RunInit
NextRunner == StartScript \/ StartFails \/ ExitOk \/ ExitFail

\* One run of main.py.
SpecRunner == InitRunner /\ [][NextRunner]_vars

\* C14: the scripts started are the first ones of the list, in its order;
\* at most one is running; each was started only after every script before
\* it had exited with status 0, so none is started after a failure.
C14_RunnerOrder ==
    /\ Len(rstarted) <= Len(SCRIPTS)
    /\ \A i \in 1..Len(rstarted) : rstarted[i] = SCRIPTS[i]
    /\ Len(rstarted) - Len(rcodes) \in {0, 1}
    /\ \A i \in 1..Len(rstarted) : \A j \in 1..(i - 1) : rcodes[j] = 0
    /\ (\E j \in 1..Len(rcodes) : rcodes[j] # 0) => (~Running /\ rnext = LoopOver)

\* The second script failed after the first had succeeded, and the loop is over.
C14_Witness ==
    /\ Len(rcodes) = 2 /\ rcodes[1] = 0 /\ rcodes[2] # 0
    /\ Len(rstarted) = 2 /\ rnext = LoopOver

(***************************************************************************)
(* store_disk_iops_throughput on its own                                   *)
(***************************************************************************)
MaxDiskValue == 1

\* A counter of a scrape: <<>> when the scrape has no line for it.
ABSENT == <<>>
DiskCounts == {ABSENT} \cup {<<n>> : n \in 0..MaxDiskValue}

\* What a scrape says of the disks: the read and the write counter of sda,
\* each present or not, and sdb absent, present in both families, or
\* present in the read family only. The byte counters of a disk take the
\* values of its operation counters, the write one for rbytes and the read
\* one for wbytes.
DiskScrapes ==
    { [sda |-> [reads |-> r, writes |-> w], sdb |-> b] :
        r \in DiskCounts, w \in DiskCounts,
        b \in { [reads |-> ABSENT, writes |-> ABSENT],
                [reads |-> <<MaxDiskValue>>, writes |-> <<MaxDiskValue>>],
                [reads |-> <<MaxDiskValue>>, writes |-> ABSENT] } }

CounterLine(name, device, count) ==
    [shown |-> count # ABSENT,
     line |-> Labelled(name, Label("device", <<device>>),
                       IF count = ABSENT THEN <<>> ELSE ToTokens(count[1]))]

DiskLinesOf(device, counts) ==
    << CounterLine("node_disk_reads_completed_total", device, counts.reads),
       CounterLine("node_disk_writes_completed_total", device, counts.writes),
       CounterLine("node_disk_read_bytes_total", device, counts.writes),
       CounterLine("node_disk_written_bytes_total", device, counts.reads) >>

DiskText(scrape) ==
    LET all == DiskLinesOf("sda", scrape.sda) \o DiskLinesOf("sdb", scrape.sdb)
        shown == SelectSeq(all, LAMBDA l : l.shown)
    IN  << <<"#", " ", "HELP">> >> \o [i \in 1..Len(shown) |-> shown[i].line]

DiskTexts == {DiskText(x) : x \in DiskScrapes}

DiskInit ==
    /\ pc = "disk_io" /\ text1 \in DiskTexts /\ text2 \in DiskTexts
    /\ elapsed = SLEEP_SECONDS /\ clock = SLEEP_SECONDS
    /\ db = NoTables /\ diag = {} /\ raised = "none" /\ ran = {} /\ failed = "none"

InitDisk == DiskInit /\ ParseOff /\ RateOff /\ UtilOff /\ RemapOff /\ RunOff
NextDisk == StoreDiskIo

\* store_disk_iops_throughput called once on two snapshots.
SpecDisk == InitDisk /\ [][NextDisk]_vars

\* The values the samples of a device have in a family of a text.
ValuesOf(pattern, text, device) ==
    LET df == parse_metric(pattern, text, "value").df
    IN  {df.rows[i]["value"] : i \in {k \in 1..Len(df.rows) :
            "device" \in df.cols /\ df.rows[k]["device"] = Str(<<device>>)}}

\* The device is in the family in both snapshots, and its counter there
\* did not go down (respectively went down).
NotDecreased(pattern, device) ==
    \E old \in ValuesOf(pattern, text1, device), new \in ValuesOf(pattern, text2, device) :
        ~NumLt(new, old)
Decreased(pattern, device) ==
    \E old \in ValuesOf(pattern, text1, device), new \in ValuesOf(pattern, text2, device) :
        NumLt(new, old)

DISK_DEVICES == {"sda", "sdb"}
DiskTables ==
    { [table |-> "disk_iops", read |-> ReadsPattern, write |-> WritesPattern,
       rcol |-> "read_iops", wcol |-> "write_iops"],
      [table |-> "disk_throughput", read |-> RBytesPattern, write |-> WBytesPattern,
       rcol |-> "read_bytes_per_sec", wcol |-> "write_bytes_per_sec"] }

\* C15: every disk_iops and disk_throughput row carries a non-negative
\* read rate and write rate and is the row of a device that both snapshots
\* have in the read family and in the write family, neither counter having
\* gone down; so a device one of whose counters went down has no row.
C15_DiskRowsComplete ==
    \A dt \in DiskTables : \A i \in 1..Len(db[dt.table]) :
        /\ NumGe0(db[dt.table][i][dt.rcol])
        /\ NumGe0(db[dt.table][i][dt.wcol])
        /\ \E d \in DISK_DEVICES :
              /\ db[dt.table][i]["volume"] = Remap(DEVICE_MAP, Str(<<d>>))
              /\ NotDecreased(dt.read, d)
              /\ NotDecreased(dt.write, d)

\* The read counter of sda alone went down: the only disk_iops row is that
\* of sdb.
C15_Witness ==
    /\ pc = "finish"
    /\ Decreased(ReadsPattern, "sda") /\ NotDecreased(WritesPattern, "sda")
    /\ Len(db["disk_iops"]) = 1 /\ db["disk_iops"][1]["volume"] = Str(<<"D">>)

====
